---------------------------- MODULE Spec2Model ----------------------------
(***************************************************************************)
(* A model of the rudder-package client (relay/sources/rudder-package):    *)
(* the version model (versions.rs), the rpkg archive container and the     *)
(* install lifecycle (archive.rs), and the batch commands (lib.rs).        *)
(*                                                                         *)
(* Strings the code inspects character by character (version strings) are  *)
(* sequences of one-character strings.  Paths are sequences of components, *)
(* the string split at "/": "/opt/rudder" is <<"", "opt", "rudder">> and    *)
(* the tar directory entry "share/" is <<"share", "">>.                     *)
(***************************************************************************)
EXTENDS Integers, Sequences, FiniteSets, TLC

VARIABLES
    \* ---- version model (versions.rs)
    gen,        \* how the raw host version string was built (ghost)
    raw,        \* the string handed to RudderVersion::from_str
    parsed,     \* its result, of kind "none" before the call
    va, vb, vc, \* three PluginVersion values
    ord,        \* their pairwise comparisons, "none" before the call
    \* ---- the host (files and processes outside the client)
    hostFile,   \* content of RUDDER_VERSION_PATH
    fs,         \* the file tree: path |-> "dir" or a file's content
    db,         \* the database file PACKAGES_DATABASE_PATH: name |-> record
    jars,       \* the jars enabled in WEBAPP_XML_PATH
    applied,    \* calls of Webapp::apply_changes so far
    \* ---- one client process per invocation
    pc,         \* where each process is in its command
    cmd,        \* the command line: kind, force, args
    idx,        \* position in args of the package being processed
    cur,        \* path of the rpkg being installed
    key,        \* position in metadata.content of the next bundle to extract
    mem,        \* the Database value the process holds in memory
    result,     \* how the command ended
    log,        \* effects of the current install, in order (ghost)
    pre,        \* fs, db and jars when the current install began (ghost)
    runs,       \* invocations started so far
    \* ---- the archive model (archive.rs 81-184 and 278-292)
    arch,       \* the call's arguments: rpkg path, nested archive name
    out,        \* results of the calls made so far, "none" before a call
    trees       \* the file tree before and after each extraction

versionVars == <<gen, raw, parsed, va, vb, vc, ord>>

hostVars == <<hostFile, fs, db, jars, applied>>

procVars == <<pc, cmd, idx, cur, key, mem, result, log, pre, runs>>

archVars == <<arch, out, trees>>

vars == <<versionVars, hostVars, procVars, archVars>>

(***************************************************************************)
(* Bounds of the model.                                                    *)
(***************************************************************************)
MaxSuffixToks == 3      \* tokens after major.minor.patch in a raw version
MaxVer == 2             \* PluginVersion major and minor range over 0..MaxVer
MaxBatch == 2           \* packages named on one command line
MaxRuns == 2            \* invocations of the client in one behaviour
ConcBatch == 1          \* packages on the command line of a concurrent install
MaxExtracts == 2        \* extractions of one nested archive in a row

(***************************************************************************)
(* Characters and decimal numerals.                                        *)
(***************************************************************************)
DigitSeq == <<"0", "1", "2", "3", "4", "5", "6", "7", "8", "9">>

IsDigit(c) == \E i \in 1..Len(DigitSeq) : DigitSeq[i] = c

DigitVal(c) == (CHOOSE i \in 1..Len(DigitSeq) : DigitSeq[i] = c) - 1

Drop(s, n) == SubSeq(s, n + 1, Len(s))

Take(s, n) == SubSeq(s, 1, n)

StartsWith(s, lit) == Len(s) >= Len(lit) /\ Take(s, Len(lit)) = lit

\* \d+ is greedy: the length of the longest run of digits s starts with.
RECURSIVE DigitRun(_)
DigitRun(s) ==
    IF s = <<>> \/ ~IsDigit(Head(s)) THEN 0 ELSE 1 + DigitRun(Tail(s))

RECURSIVE StripZeros(_)
StripZeros(ds) ==
    IF Len(ds) > 1 /\ Head(ds) = "0" THEN StripZeros(Tail(ds)) ELSE ds

\* u32::MAX, 4294967295, as a numeral (the value does not fit a 32-bit
\* signed integer).
U32MaxDigits == <<"4", "2", "9", "4", "9", "6", "7", "2", "9", "5">>

RECURSIVE NumeralLeq(_, _)
NumeralLeq(a, b) ==    \* a <= b for numerals of equal length
    \/ a = <<>>
    \/ DigitVal(Head(a)) < DigitVal(Head(b))
    \/ Head(a) = Head(b) /\ NumeralLeq(Tail(a), Tail(b))

FitsU32(ds) ==
    LET c == StripZeros(ds)
    IN  \/ Len(c) < Len(U32MaxDigits)
        \/ Len(c) = Len(U32MaxDigits) /\ NumeralLeq(c, U32MaxDigits)

RECURSIVE NumeralValue(_, _)
NumeralValue(ds, acc) ==
    IF ds = <<>> THEN acc
    ELSE NumeralValue(Tail(ds), 10 * acc + DigitVal(Head(ds)))

\* str::parse::<u32>() of a run of digits: the value, or an error on overflow.
ParseU32(ds) ==
    IF FitsU32(ds) THEN [ok |-> TRUE, value |-> NumeralValue(StripZeros(ds), 0)]
    ELSE [ok |-> FALSE]

(***************************************************************************)
(* RudderVersionMode::from_str (versions.rs 38-80).                        *)
(* A result is [kind |-> "ok", ...], [kind |-> "err"] or, where the code   *)
(* unwraps an Err, [kind |-> "panic"].                                     *)
(***************************************************************************)
TILDE_ALPHA == <<"~", "a", "l", "p", "h", "a">>
TILDE_BETA == <<"~", "b", "e", "t", "a">>
TILDE_RC == <<"~", "r", "c">>
TILDE_GIT == <<"~", "g", "i", "t">>

\* A stage regex: lit, then one or more digits, at the start of s; the
\* alpha, beta and rc regexes end in "any text" and the git regex is not
\* anchored at its end, so what follows the digits is not looked at.
StageMatches(s, lit) == StartsWith(s, lit) /\ DigitRun(Drop(s, Len(lit))) > 0

StageVersion(s, lit) ==
    LET rest == Drop(s, Len(lit)) IN ParseU32(Take(rest, DigitRun(rest)))

\* One of the alpha, beta and rc arms: c["version"].parse().unwrap().
StageArm(s, lit, stage) ==
    IF StageVersion(s, lit).ok
    THEN [kind |-> "ok", mode |-> stage, version |-> StageVersion(s, lit).value]
    ELSE [kind |-> "panic"]

ModeFinal == [kind |-> "ok", mode |-> "Final", version |-> 0]

\* The alpha regex of line 42.
AlphaRegexMatchesTruncated(s) ==
    StartsWith(s, TILDE_ALPHA)
    /\ DigitRun(Drop(s, Len(TILDE_ALPHA))) > 0
    /\ DigitRun(Drop(s, Len(TILDE_ALPHA))) = Len(s) - Len(TILDE_ALPHA)

AlphaRegexMatches(s) == StageMatches(s, TILDE_ALPHA)

ModeFromStr(s) ==
    IF s = <<>> THEN ModeFinal
    ELSE IF AlphaRegexMatches(s) THEN StageArm(s, TILDE_ALPHA, "Alpha")
    ELSE IF StageMatches(s, TILDE_BETA) THEN StageArm(s, TILDE_BETA, "Beta")
    ELSE IF StageMatches(s, TILDE_RC) THEN StageArm(s, TILDE_RC, "Rc")
    ELSE IF StageMatches(s, TILDE_GIT) THEN ModeFinal
    ELSE [kind |-> "err"]

(***************************************************************************)
(* RudderVersion::from_str (versions.rs 92-113).                           *)
(* The regex is three dot-separated groups of digits followed by a mode    *)
(* group that takes any text: each group of digits takes the longest run   *)
(* of digits, the first two must be followed by a dot, and mode is         *)
(* whatever follows the third.                                             *)
(***************************************************************************)
RudderVersionCaptures(s) ==
    LET n1 == DigitRun(s)
        r1 == Drop(s, n1)
        n2 == DigitRun(Drop(r1, 1))
        r2 == Drop(r1, 1 + n2)
        n3 == DigitRun(Drop(r2, 1))
    IN  IF /\ n1 > 0 /\ StartsWith(r1, <<".">>)
           /\ n2 > 0 /\ StartsWith(r2, <<".">>)
           /\ n3 > 0
        THEN [matched |-> TRUE,
              major |-> Take(s, n1),
              minor |-> Take(Drop(r1, 1), n2),
              patch |-> Take(Drop(r2, 1), n3),
              mode |-> Drop(r2, 1 + n3)]
        ELSE [matched |-> FALSE]

RudderVersionFromStr(s) ==
    LET caps == RudderVersionCaptures(s) IN
    IF ~caps.matched THEN [kind |-> "err"]
    ELSE IF ~ParseU32(caps.major).ok THEN [kind |-> "err"]
    ELSE IF ~ParseU32(caps.minor).ok THEN [kind |-> "err"]
    ELSE IF ~ParseU32(caps.patch).ok THEN [kind |-> "err"]
    ELSE LET m == ModeFromStr(caps.mode) IN
         IF m.kind # "ok" THEN [kind |-> m.kind]
         ELSE [kind |-> "ok",
               major |-> ParseU32(caps.major).value,
               minor |-> ParseU32(caps.minor).value,
               patch |-> ParseU32(caps.patch).value,
               mode |-> m.mode,
               version |-> m.version]

(***************************************************************************)
(* PluginVersion and its ordering (versions.rs 115-160).                   *)
(***************************************************************************)
PluginVersions == [major : 0..MaxVer, minor : 0..MaxVer, nightly : BOOLEAN]

PartialCmpIgnoringNightly(a, b) ==
    IF a.major < b.major THEN "Less"
    ELSE IF a.major > b.major THEN "Greater"
    ELSE IF a.minor < b.minor THEN "Less"
    ELSE IF a.minor > b.minor THEN "Greater"
    ELSE "Equal"

partial_cmp(a, b) ==
    IF a.major < b.major THEN "Less"
    ELSE IF a.major > b.major THEN "Greater"
    ELSE IF a.minor < b.minor THEN "Less"
    ELSE IF a.minor > b.minor THEN "Greater"
    ELSE IF a.nightly /\ ~b.nightly THEN "Less"
    ELSE IF ~a.nightly /\ b.nightly THEN "Greater"
    ELSE "Equal"

(***************************************************************************)
(* Inputs of the version model.                                            *)
(***************************************************************************)
RECURSIVE ToDigits(_)
ToDigits(n) ==    \* the decimal numeral of n, as format!("{}", n) writes it
    IF n < 10 THEN <<DigitSeq[n + 1]>>
    ELSE Append(ToDigits(n \div 10), DigitSeq[(n % 10) + 1])

\* Numbers a version component is written from; Overflow stands for the
\* numeral 4294967296 = u32::MAX + 1.
Overflow == 0 - 1
VerNums == {0, 7, 10}
OverflowDigits == <<"4", "2", "9", "4", "9", "6", "7", "2", "9", "6">>

Numeral(k) == IF k = Overflow THEN OverflowDigits ELSE ToDigits(k)

SuffixTokens == {
    TILDE_ALPHA, TILDE_BETA, TILDE_RC, TILDE_GIT,
    <<"~", "f", "o", "o">>,           \* an unknown stage
    <<"a", "l", "p", "h", "a">>,      \* a stage without '~'
    <<"-">>,
    <<"2">>,
    OverflowDigits }

RECURSIVE TokenSeqs(_)
TokenSeqs(n) ==
    IF n = 0 THEN {<<>>}
    ELSE LET shorter == TokenSeqs(n - 1)
         IN  shorter \cup {Append(t, k) : t \in shorter, k \in SuffixTokens}

RECURSIVE Flatten(_)
Flatten(toks) == IF toks = <<>> THEN <<>> ELSE Head(toks) \o Flatten(Tail(toks))

\* comps dotted components (2, 3 or 4) followed by the suffix tokens.
Render(g) ==
    Numeral(g.major) \o <<".">> \o Numeral(g.minor)
    \o (IF g.comps >= 3 THEN <<".">> \o Numeral(g.patch) ELSE <<>>)
    \o (IF g.comps >= 4 THEN <<".", "0">> ELSE <<>>)
    \o Flatten(g.toks)

DigitTokens == {t \in SuffixTokens : DigitRun(t) = Len(t)}

\* The suffix begins at the first character that is not a digit, so that a
\* generated string has one decomposition into components and suffix.
Gens ==
    {g \in [major : VerNums, minor : VerNums, patch : VerNums \cup {Overflow},
            comps : {2, 3, 4}, toks : TokenSeqs(MaxSuffixToks)] :
        g.toks = <<>> \/ g.toks[1] \notin DigitTokens}

\* The values of the version variables before a call.
NoGen == [major |-> 0, minor |-> 0, patch |-> 0, comps |-> 3, toks |-> <<>>]
NotParsed == [kind |-> "none"]
NoPluginVersion == [major |-> 0, minor |-> 0, nightly |-> FALSE]
NotCompared == [ab |-> "none", ba |-> "none", bc |-> "none", ac |-> "none"]

(***************************************************************************)
(* Paths (std::path).                                                      *)
(***************************************************************************)
PACKAGES_FOLDER == <<"", "var", "rudder", "packages">>

OPT_RUDDER == <<"", "opt", "rudder">>

IsAbsolute(path) == Len(path) > 1 /\ path[1] = ""

\* A path without its trailing slash.
Normalize(path) ==
    IF Len(path) > 1 /\ path[Len(path)] = "" THEN Take(path, Len(path) - 1)
    ELSE path

\* Path::join: an absolute argument replaces the base; the result keeps the
\* argument's trailing slash.
Join(base, path) == IF IsAbsolute(path) THEN path ELSE Normalize(base) \o path

\* Path::parent.
Parent(path) == Take(Normalize(path), Len(Normalize(path)) - 1)

\* The directories create_dir_all(path) makes sure exist.
Ancestors(path) == {Take(path, n) : n \in 2..Len(path)}

EmptyFs == [x \in {} |-> "dir"]

Exists(tree, path) == Normalize(path) \in DOMAIN tree

\* fs::create_dir_all: existing entries are left as they are.
CreateDirAll(tree, path) ==
    [x \in DOMAIN tree \cup Ancestors(Normalize(path)) |->
        IF x \in DOMAIN tree THEN tree[x] ELSE "dir"]

\* An unpack that keeps what is already at the entry's path.
UnpackEntryKeeping(tree, dst, e) ==
    LET target == Normalize(Join(dst, e.path))
        made == CreateDirAll(tree, Parent(target))
    IN  [x \in DOMAIN made \cup {target} |->
            IF x \in DOMAIN made THEN made[x] ELSE e.data]

\* One tar entry unpacked under dst: the parent directories are created and
\* the entry replaces whatever is at its path.
UnpackEntry(tree, dst, e) ==
    LET target == Normalize(Join(dst, e.path))
        made == CreateDirAll(tree, Parent(target))
    IN  [x \in DOMAIN made \cup {target} |->
            IF x = target THEN e.data ELSE made[x]]

RECURSIVE UnpackEntries(_, _, _)
UnpackEntries(tree, dst, entries) ==
    IF entries = <<>> THEN tree
    ELSE UnpackEntries(UnpackEntry(tree, dst, Head(entries)), dst, Tail(entries))

(***************************************************************************)
(* The rpkg files the commands are given.  A container is the sequence of  *)
(* its ar entries; a txz entry holds whether its xz stream decompresses    *)
(* and its tar entries, each with whether its header reads.                *)
(***************************************************************************)
None == <<>>

Some(x) == <<x>>

Dir(path) == [path |-> path, data |-> "dir", ok |-> TRUE]

File(path, data) == [path |-> path, data |-> data, ok |-> TRUE]

Txz(name, tar) == [name |-> name, kind |-> "txz", xz |-> TRUE, tar |-> tar]

MetadataEntry == [name |-> "metadata", kind |-> "json", xz |-> FALSE, tar |-> <<>>]

SCRIPTS_TXZ == "scripts.txz"          \* archive.rs 92 and 100

INSTALL_SCRIPTS_TXZ == "script.txz"   \* archive.rs 211

Version(major, minor, patch) == [major |-> major, minor |-> minor, patch |-> patch]

NotifyJar == <<"", "opt", "rudder", "share", "plugins", "notify.jar">>
HooksJar == <<"", "opt", "rudder", "share", "plugins", "hooks.jar">>
HooksApiJar == <<"", "opt", "rudder", "share", "plugins", "hooks-api.jar">>

\* content is the mapping dst with keys, the order its keys() iterates in.
Rpkgs ==
    [x \in {"notify.rpkg", "notify-2.rpkg", "hooks.rpkg"} |->
     CASE x = "notify.rpkg" ->
            [metadata |->
                [name |-> "notify", rudder_version |-> Version(8, 0, 0),
                 depends |-> None,
                 content |-> [keys |-> <<"files.txz">>,
                              dst |-> [n \in {"files.txz"} |-> OPT_RUDDER]],
                 jar_files |-> None],
             container |-> <<
                MetadataEntry,
                Txz("scripts.txz", <<File(<<"notify", "postinst">>, "notify postinst")>>),
                Txz("files.txz", <<Dir(<<"share", "">>),
                                   File(<<"share", "notify.py">>, "notify 1")>>) >>]
       [] x = "notify-2.rpkg" ->
            [metadata |->
                [name |-> "notify", rudder_version |-> Version(7, 3, 2),
                 depends |-> None,
                 content |-> [keys |-> <<"files.txz">>,
                              dst |-> [n \in {"files.txz"} |-> OPT_RUDDER]],
                 jar_files |-> Some(<<NotifyJar>>)],
             container |-> <<
                MetadataEntry,
                Txz("files.txz", <<File(<<"share", "notify.py">>, "notify 2"),
                                   File(<<"share", "glpi.py">>, "glpi 2")>>) >>]
       [] x = "hooks.rpkg" ->
            [metadata |->
                [name |-> "hooks", rudder_version |-> Version(8, 0, 0),
                 depends |-> Some({"notify"}),
                 content |-> [keys |-> <<"hooks.txz", "files.txz">>,
                              dst |-> [n \in {"hooks.txz", "files.txz"} |->
                                        IF n = "hooks.txz" THEN PACKAGES_FOLDER
                                        ELSE OPT_RUDDER]],
                 jar_files |-> Some(<<HooksJar, HooksApiJar>>)],
             container |-> <<
                Txz("files.txz", <<File(<<"share", "hooks.py">>, "hooks 1")>>),
                MetadataEntry,
                Txz("hooks.txz", <<File(<<"hooks", "preinst">>, "hooks preinst"),
                                   File(<<"hooks", "postinst">>, "hooks postinst")>>) >>]]

RpkgPaths == DOMAIN Rpkgs

PluginNames == {Rpkgs[x].metadata.name : x \in RpkgPaths}

\* A metadata entry whose content is not JSON of the metadata schema.
MalformedMetadataEntry ==
    [name |-> "metadata", kind |-> "badjson", xz |-> FALSE, tar |-> <<>>]

\* A nested archive whose xz stream does not decompress.
BadXz(name) == [name |-> name, kind |-> "txz", xz |-> FALSE, tar |-> <<>>]

\* A tar entry whose header does not read.
BadEntry(path) == [path |-> path, data |-> "", ok |-> FALSE]

\* Containers that are no installable rpkg, as the files of ./tests are:
\* metadata is what a well-formed metadata entry would hold.
TestArchives ==
    [x \in {"without_metadata.rpkg", "malformed_metadata.rpkg",
            "badxz.rpkg", "badtar.rpkg"} |->
     [metadata |-> Rpkgs["notify.rpkg"].metadata,
      container |->
        CASE x = "without_metadata.rpkg" ->
                << Txz("files.txz", <<File(<<"share", "notify.py">>, "notify 1")>>) >>
          [] x = "malformed_metadata.rpkg" ->
                << MalformedMetadataEntry,
                   Txz("files.txz", <<File(<<"share", "notify.py">>, "notify 1")>>) >>
          [] x = "badxz.rpkg" ->
                << MetadataEntry, BadXz("files.txz") >>
          [] x = "badtar.rpkg" ->
                << MetadataEntry,
                   Txz("files.txz", <<Dir(<<"share", "">>),
                                      File(<<"share", "notify.py">>, "notify 1"),
                                      BadEntry(<<"share", "glpi.py">>),
                                      File(<<"share", "notifyd.py">>, "notifyd 1")>>) >>]]

\* Every file a path can name.
Archives ==
    [x \in RpkgPaths \cup DOMAIN TestArchives |->
        IF x \in RpkgPaths THEN Rpkgs[x] ELSE TestArchives[x]]

ArchivePaths == DOMAIN Archives

(***************************************************************************)
(* The archive container model (archive.rs 81-184).                        *)
(* Results are [kind |-> "ok", value |-> v], [kind |-> "err"] or, where    *)
(* the code unwraps a None or an Err, [kind |-> "panic"].                  *)
(***************************************************************************)
Ok(v) == [kind |-> "ok", value |-> v]

Err == [kind |-> "err", value |-> <<>>]

Panic == [kind |-> "panic", value |-> <<>>]

\* get_txz_dst (90-96).
get_txz_dst(r, txz_name) ==
    IF txz_name = SCRIPTS_TXZ THEN Ok(PACKAGES_FOLDER)
    ELSE IF txz_name \in DOMAIN r.metadata.content.dst
         THEN Ok(r.metadata.content.dst[txz_name])
         ELSE Panic

\* get_txz_list (108-118): the container's entries named *.txz, in order.
EndsWithTxz(e) == e.kind = "txz"

get_txz_list(r) ==
    LET RECURSIVE Names(_)
        Names(es) ==
            IF es = <<>> THEN <<>>
            ELSE IF EndsWithTxz(Head(es)) THEN <<Head(es).name>> \o Names(Tail(es))
            ELSE Names(Tail(es))
    IN  Ok(Names(r.container))

\* The entries a tar stream yields before its first unreadable header: the
\* iterator ends at the first error.
RECURSIVE ReadableEntries(_)
ReadableEntries(tar) ==
    IF tar = <<>> \/ ~Head(tar).ok THEN <<>>
    ELSE <<Head(tar)>> \o ReadableEntries(Tail(tar))

\* get_relative_file_list_of_txz (120-147): every container entry of that
\* name is read; entries() errors are filtered out.
get_relative_file_list_of_txz(r, txz_name) ==
    LET RECURSIVE Scan(_, _)
        Scan(es, acc) ==
            IF es = <<>> THEN Ok(acc)
            ELSE IF Head(es).name # txz_name THEN Scan(Tail(es), acc)
            ELSE IF ~Head(es).xz THEN Err
            ELSE Scan(Tail(es),
                      acc \o [i \in 1..Len(ReadableEntries(Head(es).tar)) |->
                                ReadableEntries(Head(es).tar)[i].path])
    IN  Scan(r.container, <<>>)

\* get_absolute_file_list_of_txz (149-157).
get_absolute_file_list_of_txz(r, txz_name) ==
    LET prefix == get_txz_dst(r, txz_name)
        relative_files == get_relative_file_list_of_txz(r, txz_name)
    IN  IF prefix.kind # "ok" THEN prefix
        ELSE IF relative_files.kind # "ok" THEN relative_files
        ELSE Ok([i \in 1..Len(relative_files.value) |->
                    Join(prefix.value, relative_files.value[i])])

\* A list that keeps every nested archive, the scripts bundle included.
RetainedAll(txz_name) == TRUE

\* The name get_archive_installed_files drops from the list (100).
Retained(txz_name) == txz_name # SCRIPTS_TXZ

\* get_archive_installed_files (98-106).
get_archive_installed_files(r) ==
    LET txz_names == SelectSeq(get_txz_list(r).value, Retained)
        RECURSIVE Collect(_, _)
        Collect(names, acc) ==
            IF names = <<>> THEN Ok(acc)
            ELSE LET f == get_absolute_file_list_of_txz(r, Head(names))
                 IN  IF f.kind # "ok" THEN f
                     ELSE Collect(Tail(names), acc \o f.value)
    IN  Collect(txz_names, <<>>)

\* The first container entry of that name, 0 when there is none.
FindEntry(r, txz_name) ==
    IF \E i \in 1..Len(r.container) : r.container[i].name = txz_name
    THEN CHOOSE i \in 1..Len(r.container) :
            /\ r.container[i].name = txz_name
            /\ \A j \in 1..(i - 1) : r.container[j].name # txz_name
    ELSE 0

\* unpack_embedded_txz (159-184), with the n first tar entries written: the
\* file tree it leaves.  n is less than the number of entries when the
\* unpack stops at an entry.
unpack_embedded_txz(tree, r, txz_name, dst_path, n) ==
    LET i == FindEntry(r, txz_name) IN
    IF i = 0 THEN tree
    ELSE UnpackEntries(CreateDirAll(tree, Parent(dst_path)), dst_path,
                       Take(r.container[i].tar, n))

\* The numbers of entries an unpack of that bundle can stop after with an
\* error: any entry can fail to be written; an unreadable one always does.
UnpackStops(r, txz_name) ==
    LET i == FindEntry(r, txz_name) IN
    IF i = 0 THEN {}
    ELSE IF ~r.container[i].xz THEN {0}
    ELSE {n \in 0..(Len(r.container[i].tar) - 1) :
            \A j \in 1..n : r.container[i].tar[j].ok}

UnpackCompletes(r, txz_name) ==
    LET i == FindEntry(r, txz_name) IN
    IF i = 0 THEN TRUE
    ELSE r.container[i].xz /\ \A j \in 1..Len(r.container[i].tar) :
                                    r.container[i].tar[j].ok

\* fs::create_dir_all(path) succeeds: nothing on the way is a file.
DirsFit(tree, path) ==
    \A a \in Ancestors(Normalize(path)) : a \in DOMAIN tree => tree[a] = "dir"

\* tar's unpack of one entry succeeds: its header reads, its parent
\* directories can be made, and what is at its path, if anything, is of its
\* kind (a file is replaced by a file, a directory is kept).
EntryFits(tree, dst, e) ==
    LET target == Normalize(Join(dst, e.path)) IN
    /\ e.ok
    /\ DirsFit(tree, Parent(target))
    /\ target \in DOMAIN tree => ((tree[target] = "dir") <=> (e.data = "dir"))

\* tar_archive.unpack(dst): the entries are written in order up to the
\* first one that fails.
RECURSIVE UnpackUntilError(_, _, _)
UnpackUntilError(tree, dst, entries) ==
    IF entries = <<>> THEN [kind |-> "ok", value |-> tree]
    ELSE IF ~EntryFits(tree, dst, Head(entries))
         THEN [kind |-> "err", value |-> tree]
         ELSE UnpackUntilError(UnpackEntry(tree, dst, Head(entries)), dst,
                               Tail(entries))

\* An unpack that makes the parent of dst before it looks for the entry.
UnpackedParentFirst(tree, r, txz_name, dst_path) ==
    LET i == FindEntry(r, txz_name) IN
    IF ~DirsFit(tree, Parent(dst_path))
    THEN [kind |-> "err", value |-> tree]
    ELSE IF i = 0
         THEN [kind |-> "ok", value |-> CreateDirAll(tree, Parent(dst_path))]
    ELSE IF ~r.container[i].xz
         THEN [kind |-> "err", value |-> CreateDirAll(tree, Parent(dst_path))]
    ELSE UnpackUntilError(CreateDirAll(tree, Parent(dst_path)), dst_path,
                          r.container[i].tar)

\* unpack_embedded_txz (159-184) on a given tree: its result, with the tree
\* it leaves as value.
Unpacked(tree, r, txz_name, dst_path) ==
    LET i == FindEntry(r, txz_name) IN
    IF i = 0 THEN [kind |-> "ok", value |-> tree]
    ELSE IF ~DirsFit(tree, Parent(dst_path))
         THEN [kind |-> "err", value |-> tree]
    ELSE IF ~r.container[i].xz
         THEN [kind |-> "err", value |-> CreateDirAll(tree, Parent(dst_path))]
    ELSE UnpackUntilError(CreateDirAll(tree, Parent(dst_path)), dst_path,
                          r.container[i].tar)

\* The two errors of read_metadata, by their message.
NO_METADATA_FOUND == "No metadata found in"

FAILED_TO_PARSE == "Failed to parse metadata"

ErrOf(message) == [kind |-> "err", value |-> message]

\* read_metadata (278-292): the first entry named metadata is parsed; a
\* container without one is an error.
read_metadata(path) ==
    LET r == Archives[path]
        i == FindEntry(r, "metadata")
    IN  IF i = 0 THEN ErrOf(NO_METADATA_FOUND)
        ELSE IF r.container[i].kind # "json" THEN ErrOf(FAILED_TO_PARSE)
        ELSE Ok(r.metadata)

\* Rpkg::from_path (82-88): read_metadata(path).unwrap().
from_path(path) ==
    IF read_metadata(path).kind = "ok" THEN Ok(Archives[path]) ELSE Panic

(***************************************************************************)
(* Collaborators whose code is outside the modelled files.                 *)
(***************************************************************************)
\* Contents RUDDER_VERSION_PATH can have: 8.0.1~rc1 and the unparsable 8.0.
HostVersionFiles == {
    <<"8", ".", "0", ".", "1">> \o TILDE_RC \o <<"1">>,
    <<"8", ".", "0">> }

\* RudderVersion::from_path: the file's content parsed by from_str.
RudderVersionFromPath(content) == RudderVersionFromStr(content)

\* RudderVersion::is_compatible: same major and minor.
is_compatible(declared, webapp_version) ==
    declared.major = webapp_version.major /\ declared.minor = webapp_version.minor

\* Dependencies::are_installed: every dependency has a record.
are_installed(depends, database) == \A d \in depends : d \in DOMAIN database

\* The repository index: the rpkg files it offers for a plugin name.
RepoNames == {"hooks"}

RepoIndex(name) == {x \in RpkgPaths : Rpkgs[x].metadata.name = name}

get_compatible_plugin(webapp_version, name) ==
    {x \in RepoIndex(name) :
        is_compatible(Rpkgs[x].metadata.rudder_version, webapp_version)}

EmptyDb == [n \in {} |-> [files |-> <<>>, metadata |-> Rpkgs["notify.rpkg"].metadata]]

\* Database::uninstall's removal of the tracked files: directories stay.
RemoveFiles(tree, files) ==
    LET gone == {Normalize(files[i]) : i \in 1..Len(files)}
    IN  [x \in {y \in DOMAIN tree : y \notin gone \/ tree[y] = "dir"} |-> tree[x]]

RemoveRecord(database, name) == [n \in DOMAIN database \ {name} |-> database[n]]

(***************************************************************************)
(* Rpkg::install (archive.rs 191-249), its parts.                          *)
(***************************************************************************)
\* The test of lines 195-201: install goes on when it holds.
CompatGateOpen(force, compatible) == TRUE

CompatGate(force, compatible) == force \/ compatible

\* The test of lines 205-209.
DepsGateOpen(force, depends, database) == TRUE

DepsGate(force, depends, database) ==
    IF depends = None THEN TRUE
    ELSE force \/ are_installed(depends[1], database)

\* Display for PackageScript (47-56) and PackageScriptArg (65-73).
ScriptName(script) ==
    CASE script = "Postinst" -> "postinst"
      [] script = "Postrm" -> "postrm"
      [] script = "Preinst" -> "preinst"
      [] script = "Prerm" -> "prerm"

ScriptArg(arg) ==
    CASE arg = "Install" -> "install"
      [] arg = "Upgrade" -> "upgrade"
      [] arg = "None" -> ""

\* An argument chosen from the database: Upgrade when the name has a record.
InstallOrUpgradeByRecord(name, database) ==
    IF name \in DOMAIN database THEN "Upgrade" ELSE "Install"

\* install_or_upgrade (213 and 233).
InstallOrUpgrade(name, database) == "Install"

\* An order of the statements with the postinst script before the
\* database is written.
NextStepPostinstFirst(step) ==
    CASE step = "scripts" -> "preinst"
      [] step = "preinst" -> "content"
      [] step = "content" -> "postinst"
      [] step = "postinst" -> "dbwrite"
      [] step = "dbwrite" -> "jars"

\* The statements of Rpkg::install after its tests, in the order of the
\* text (211-249): the scripts bundle (211), preinst (213-214), the
\* content loop and the database read and insert (216-230), the database
\* write (231), postinst (233-234), the jars (235-249).
NextStep(step) ==
    CASE step = "scripts" -> "preinst"
      [] step = "preinst" -> "content"
      [] step = "content" -> "dbwrite"
      [] step = "dbwrite" -> "postinst"
      [] step = "postinst" -> "jars"

\* run_package_script (256-258).
package_script_path(r, script) ==
    Join(Join(PACKAGES_FOLDER, <<r.metadata.name>>), <<ScriptName(script)>>)

\* run_package_script (271-274): what a spawned script's exit status makes
\* of the step.
ScriptStepStrict(exit) == IF exit = 0 THEN "ok" ELSE "err"

ScriptStep(exit) == "ok"

\* db.plugins.insert (224-230).
InsertNothing(database, name, record) == database

InsertMerging(database, name, record) ==
    [n \in DOMAIN database \cup {name} |->
        IF n = name /\ n \in DOMAIN database
        THEN [files |-> database[n].files \o record.files,
              metadata |-> record.metadata]
        ELSE IF n = name THEN record ELSE database[n]]

Insert(database, name, record) ==
    [n \in DOMAIN database \cup {name} |->
        IF n = name THEN record ELSE database[n]]

\* Database::write (231): the file's content after the process wrote the
\* value it holds.
WriteMerged(file, memory) ==
    [n \in DOMAIN file \cup DOMAIN memory |->
        IF n \in DOMAIN memory THEN memory[n] ELSE file[n]]

Write(file, memory) == memory

(***************************************************************************)
(* The processes.                                                          *)
(***************************************************************************)
Procs == {1, 2}

RECURSIVE SeqsUpTo(_, _)
SeqsUpTo(S, n) ==
    IF n = 0 THEN {<<>>}
    ELSE LET shorter == SeqsUpTo(S, n - 1)
         IN  shorter \cup {Append(t, x) : t \in shorter, x \in S}

Batches(S, n) == SeqsUpTo(S, n) \ {<<>>}

NoCmd == [kind |-> "none", force |-> FALSE, args |-> <<>>]

NoPre == [fs |-> EmptyFs, db |-> EmptyDb, jars |-> {}]

Event(a, b, c, d) == <<a, b, c, d>>

Rpkg(p) == Rpkgs[cur[p]]

\* A command ends: with an error, a panic, or Ok.
End(p, how) ==
    /\ pc' = [pc EXCEPT ![p] = "done"]
    /\ result' = [result EXCEPT ![p] = how]

Goto(p, where) ==
    /\ pc' = [pc EXCEPT ![p] = where]
    /\ UNCHANGED result

Logged(p, e) == log' = [log EXCEPT ![p] = Append(@, e)]

\* The process exits (lib.rs 50-91, run returns): nothing it held is kept.
Exit(p) ==
    /\ pc[p] = "done"
    /\ pc' = [pc EXCEPT ![p] = "idle"]
    /\ cmd' = [cmd EXCEPT ![p] = NoCmd]
    /\ idx' = [idx EXCEPT ![p] = 1]
    /\ cur' = [cur EXCEPT ![p] = "notify.rpkg"]
    /\ key' = [key EXCEPT ![p] = 1]
    /\ mem' = [mem EXCEPT ![p] = EmptyDb]
    /\ result' = [result EXCEPT ![p] = "none"]
    /\ log' = [log EXCEPT ![p] = <<>>]
    /\ pre' = [pre EXCEPT ![p] = NoPre]
    /\ UNCHANGED <<runs, hostVars, versionVars, archVars>>

\* cli: install [--force] <path-or-name>... (lib.rs 80-82).
StartInstall(p, maxBatch) ==
    /\ pc[p] = "idle"
    /\ runs < MaxRuns
    /\ \E force \in BOOLEAN, args \in Batches(RpkgPaths \cup RepoNames, maxBatch) :
          cmd' = [cmd EXCEPT ![p] = [kind |-> "install", force |-> force, args |-> args]]
    /\ runs' = runs + 1
    /\ idx' = [idx EXCEPT ![p] = 1]
    /\ pc' = [pc EXCEPT ![p] = "open"]
    /\ result' = [result EXCEPT ![p] = "running"]
    /\ UNCHANGED <<cur, key, mem, log, pre, hostVars, versionVars, archVars>>

\* action::install, the closure up to Rpkg::from_path (lib.rs 125-152).
Open(p) ==
    /\ pc[p] = "open"
    /\ LET package == cmd[p].args[idx[p]]
           webapp_version == RudderVersionFromPath(hostFile)
           Opened(path) ==
                IF from_path(path).kind = "ok"
                THEN /\ cur' = [cur EXCEPT ![p] = path]
                     /\ Goto(p, "check")
                ELSE /\ End(p, "panic")
                     /\ UNCHANGED cur
       IN  \/ /\ package \in RpkgPaths
              /\ Opened(package)
           \/ /\ package \notin RpkgPaths
              /\ webapp_version.kind # "ok"
              /\ End(p, "err:version")
              /\ UNCHANGED cur
           \/ /\ package \notin RpkgPaths
              /\ webapp_version.kind = "ok"
              /\ \/ /\ End(p, "err:index")     \* the index cannot be read
                    /\ UNCHANGED cur
                 \/ /\ get_compatible_plugin(webapp_version, package) = {}
                    /\ End(p, "err:nocandidate")
                    /\ UNCHANGED cur
                 \/ \E x \in get_compatible_plugin(webapp_version, package) :
                       \/ /\ End(p, "err:download")
                          /\ UNCHANGED cur
                       \/ Opened(x)
    /\ pre' = [pre EXCEPT ![p] = [fs |-> fs, db |-> db, jars |-> jars]]
    /\ log' = [log EXCEPT ![p] = <<>>]
    /\ UNCHANGED <<cmd, idx, key, mem, runs, hostVars, versionVars, archVars>>

\* Rpkg::install, lines 193-209: the host version is read, then the
\* compatibility and the dependency tests.
Check(p) ==
    /\ pc[p] = "check"
    /\ LET webapp_version == RudderVersionFromPath(hostFile)
           m == Rpkg(p).metadata
       IN  IF webapp_version.kind # "ok" THEN End(p, "err:version")
           ELSE IF ~CompatGate(cmd[p].force,
                               is_compatible(m.rudder_version, webapp_version))
                THEN End(p, "err:incompatible")
           ELSE IF ~DepsGate(cmd[p].force, m.depends, db)
                THEN End(p, "err:dependencies")
           ELSE Goto(p, "scripts")
    /\ UNCHANGED <<cmd, idx, cur, key, mem, log, pre, runs, hostVars, versionVars, archVars>>

\* One call of unpack_embedded_txz from install: it completes, or stops
\* with an error after creating nothing or after some of the entries.
Unpack(p, txz_name, dst, next, failed) ==
    \/ /\ UnpackCompletes(Rpkg(p), txz_name)
       /\ fs' = unpack_embedded_txz(fs, Rpkg(p), txz_name, dst,
                    IF FindEntry(Rpkg(p), txz_name) = 0 THEN 0
                    ELSE Len(Rpkg(p).container[FindEntry(Rpkg(p), txz_name)].tar))
       /\ Logged(p, Event("unpack", txz_name, "", ""))
       /\ next
    \/ /\ FindEntry(Rpkg(p), txz_name) # 0
       /\ \/ fs' = fs
          \/ \E n \in UnpackStops(Rpkg(p), txz_name) :
                fs' = unpack_embedded_txz(fs, Rpkg(p), txz_name, dst, n)
       /\ End(p, failed)
       /\ UNCHANGED <<log, key>>

\* Line 211.
ExtractScripts(p) ==
    /\ pc[p] = "scripts"
    /\ Unpack(p, INSTALL_SCRIPTS_TXZ, PACKAGES_FOLDER,
              Goto(p, NextStep("scripts")) /\ UNCHANGED key, "err:scripts")
    /\ UNCHANGED <<cmd, idx, cur, mem, pre, runs, hostFile, db, jars, applied,
                   versionVars, archVars>>

\* run_package_script (251-275): no file, no run; a spawn that fails is an
\* error; a script that ran is ok whatever its exit status.
RunPackageScript(p, script, arg, next, failed) ==
    \/ /\ ~Exists(fs, package_script_path(Rpkg(p), script))
       /\ UNCHANGED log
       /\ next
    \/ /\ Exists(fs, package_script_path(Rpkg(p), script))
       /\ \/ /\ UNCHANGED log
             /\ End(p, failed)
          \/ \E exit \in {0, 1} :
                /\ Logged(p, Event("run", ScriptName(script), ScriptArg(arg),
                                   IF exit = 0 THEN "0" ELSE "1"))
                /\ IF ScriptStep(exit) = "ok" THEN next ELSE End(p, failed)

\* Lines 213-214.
Preinst(p) ==
    /\ pc[p] = "preinst"
    /\ RunPackageScript(p, "Preinst", InstallOrUpgrade(Rpkg(p).metadata.name, db),
                        Goto(p, NextStep("preinst")), "err:preinst")
    /\ key' = [key EXCEPT ![p] = 1]
    /\ UNCHANGED <<cmd, idx, cur, mem, pre, runs, hostVars, versionVars, archVars>>

\* Lines 216-220, one turn of the loop.
ExtractContent(p) ==
    /\ pc[p] = "content"
    /\ key[p] <= Len(Rpkg(p).metadata.content.keys)
    /\ LET txz_name == Rpkg(p).metadata.content.keys[key[p]]
       IN  Unpack(p, txz_name, get_txz_dst(Rpkg(p), txz_name).value,
                  /\ Goto(p, "content")
                  /\ key' = [key EXCEPT ![p] = @ + 1],
                  "err:unpack")
    /\ UNCHANGED <<cmd, idx, cur, mem, pre, runs, hostFile, db, jars, applied,
                   versionVars, archVars>>

\* Lines 223-230: the database is read and the record inserted in memory.
DbRead(p) ==
    /\ pc[p] = "content"
    /\ key[p] > Len(Rpkg(p).metadata.content.keys)
    /\ LET files == get_archive_installed_files(Rpkg(p))
       IN  \/ /\ End(p, "err:dbread")
              /\ UNCHANGED <<mem, log>>
           \/ /\ files.kind = "err"
              /\ End(p, "err:files")
              /\ UNCHANGED <<mem, log>>
           \/ /\ files.kind = "panic"
              /\ End(p, "panic")
              /\ UNCHANGED <<mem, log>>
           \/ /\ files.kind = "ok"
              /\ mem' = [mem EXCEPT ![p] =
                            Insert(db, Rpkg(p).metadata.name,
                                   [files |-> files.value,
                                    metadata |-> Rpkg(p).metadata])]
              /\ Logged(p, Event("dbread", "", "", ""))
              /\ Goto(p, NextStep("content"))
    /\ UNCHANGED <<cmd, idx, cur, key, pre, runs, hostVars, versionVars, archVars>>

\* Line 231.
DbWrite(p) ==
    /\ pc[p] = "dbwrite"
    /\ \/ /\ End(p, "err:dbwrite")
          /\ UNCHANGED <<db, log>>
       \/ /\ db' = Write(db, mem[p])
          /\ Logged(p, Event("dbwrite", "", "", ""))
          /\ Goto(p, NextStep("dbwrite"))
    /\ UNCHANGED <<cmd, idx, cur, key, mem, pre, runs, hostFile, fs, jars,
                   applied, versionVars, archVars>>

\* Lines 233-234.
Postinst(p) ==
    /\ pc[p] = "postinst"
    /\ RunPackageScript(p, "Postinst", InstallOrUpgrade(Rpkg(p).metadata.name, db),
                        Goto(p, NextStep("postinst")), "err:postinst")
    /\ UNCHANGED <<cmd, idx, cur, key, mem, pre, runs, hostVars, versionVars, archVars>>

\* A loop that goes on after an item that failed.
TryForEachIndependent(item_ok, is_last) ==
    IF ~is_last THEN "next" ELSE IF item_ok THEN "ok" ELSE "err"

\* A loop that ends after its first item, whatever follows it.
TryForEachFirstOnly(item_ok, is_last) == IF item_ok THEN "ok" ELSE "err"

\* Iterator::try_for_each (lib.rs 115 and 124): what follows an item.
TryForEach(item_ok, is_last) ==
    IF ~item_ok THEN "err" ELSE IF is_last THEN "ok" ELSE "next"

\* Lines 237-248 and the return to action::install's try_for_each
\* (lib.rs 153-156): every jar is enabled, or enable_jar fails at one.
EnableJars(p) ==
    /\ pc[p] = "jars"
    /\ LET jar_files == IF Rpkg(p).metadata.jar_files = None THEN <<>>
                        ELSE Rpkg(p).metadata.jar_files[1]
           Enabled(n) == {jar_files[i] : i \in 1..n}
           Events(n) == [i \in 1..n |->
                            Event("jar", jar_files[i][Len(jar_files[i])], "", "")]
       IN  \/ /\ jars' = jars \cup Enabled(Len(jar_files))
              /\ log' = [log EXCEPT ![p] = @ \o Events(Len(jar_files))]
              /\ IF TryForEach(TRUE, idx[p] = Len(cmd[p].args)) = "next"
                 THEN /\ idx' = [idx EXCEPT ![p] = @ + 1]
                      /\ Goto(p, "open")
                 ELSE /\ UNCHANGED idx
                      /\ Goto(p, "apply")
           \/ \E n \in 0..(Len(jar_files) - 1) :
                /\ jars' = jars \cup Enabled(n)
                /\ log' = [log EXCEPT ![p] = @ \o Events(n)]
                /\ End(p, "err:jar")
                /\ UNCHANGED idx
    /\ UNCHANGED <<cmd, cur, key, mem, pre, runs, hostFile, fs, db, applied,
                   versionVars, archVars>>

\* webapp.apply_changes() (lib.rs 156): the call is made, and succeeds or
\* fails.
ApplyChanges(p) ==
    /\ pc[p] = "apply"
    /\ applied' = applied + 1
    /\ \/ End(p, "ok")
       \/ End(p, "err:apply")
    /\ UNCHANGED <<cmd, idx, cur, key, mem, log, pre, runs, hostFile, fs, db,
                   jars, versionVars, archVars>>

\* cli: uninstall <name>... (lib.rs 83-85).
StartUninstall(p, maxBatch) ==
    /\ pc[p] = "idle"
    /\ runs < MaxRuns
    /\ \E args \in Batches(PluginNames, maxBatch) :
          cmd' = [cmd EXCEPT ![p] = [kind |-> "uninstall", force |-> FALSE, args |-> args]]
    /\ runs' = runs + 1
    /\ idx' = [idx EXCEPT ![p] = 1]
    /\ pc' = [pc EXCEPT ![p] = "load"]
    /\ result' = [result EXCEPT ![p] = "running"]
    /\ UNCHANGED <<cur, key, mem, log, pre, hostVars, versionVars, archVars>>

\* action::uninstall, line 114: Database::read(PACKAGES_DATABASE_PATH)?.
Load(p) ==
    /\ pc[p] = "load"
    /\ \/ /\ End(p, "err:dbread")
          /\ UNCHANGED <<mem, pre>>
       \/ /\ mem' = [mem EXCEPT ![p] = db]
          /\ pre' = [pre EXCEPT ![p] = [fs |-> fs, db |-> db, jars |-> jars]]
          /\ Goto(p, "uninstall")
    /\ UNCHANGED <<cmd, idx, cur, key, log, runs, hostVars, versionVars, archVars>>

\* What try_for_each does after the item at idx.
AfterItem(p, item_ok, failed) ==
    LET then == TryForEach(item_ok, idx[p] = Len(cmd[p].args)) IN
    /\ idx' = [idx EXCEPT ![p] = IF then = "next" THEN @ + 1 ELSE @]
    /\ IF then = "next" THEN UNCHANGED <<pc, result>>
       ELSE End(p, IF then = "ok" THEN "ok" ELSE failed)

\* action::uninstall, line 115, one item: Database::uninstall(name) fails
\* for a name without a record; otherwise it removes the tracked files and
\* the record and persists the database, or stops at an error on the way.
UninstallOne(p) ==
    /\ pc[p] = "uninstall"
    /\ LET name == cmd[p].args[idx[p]] IN
       \/ /\ name \notin DOMAIN mem[p]
          /\ AfterItem(p, FALSE, "err:notinstalled")
          /\ UNCHANGED <<fs, db, mem, log>>
       \/ /\ name \in DOMAIN mem[p]
          /\ fs' = RemoveFiles(fs, mem[p][name].files)
          /\ mem' = [mem EXCEPT ![p] = RemoveRecord(@, name)]
          /\ db' = Write(db, mem'[p])
          /\ Logged(p, Event("uninstall", name, "", ""))
          /\ AfterItem(p, TRUE, "")
       \/ /\ name \in DOMAIN mem[p]
          /\ fs' \in {fs, RemoveFiles(fs, mem[p][name].files)}
          /\ AfterItem(p, FALSE, "err:uninstall")
          /\ UNCHANGED <<db, mem, log>>
    /\ UNCHANGED <<cmd, cur, key, pre, runs, hostFile, jars, applied, versionVars, archVars>>

(***************************************************************************)
(* Spec: one invocation at a time (the client is single-threaded and the   *)
(* commands of a shell run one after the other).                           *)
(***************************************************************************)
\* The values of the archive variables when no archive call is made.
NotCalled == [kind |-> "none", value |-> <<>>]

NoOut ==
    [metadata |-> NotCalled, opened |-> NotCalled, relative |-> NotCalled,
     absolute |-> NotCalled, installed |-> NotCalled, extract |-> <<>>]

NoArch == [path |-> "notify.rpkg", txz |-> "files.txz", dst |-> OPT_RUDDER]

ArchIdle == arch = NoArch /\ out = NoOut /\ trees = <<EmptyFs>>

VersionIdle ==
    /\ gen = NoGen /\ raw = Render(NoGen) /\ parsed = NotParsed
    /\ va = NoPluginVersion /\ vb = NoPluginVersion /\ vc = NoPluginVersion
    /\ ord = NotCompared

HostIdle ==
    /\ hostFile = <<"8", ".", "0", ".", "1">> \o TILDE_RC \o <<"1">>
    /\ fs = EmptyFs /\ db = EmptyDb /\ jars = {} /\ applied = 0

ProcsIdle ==
    /\ pc = [p \in Procs |-> "idle"]
    /\ cmd = [p \in Procs |-> NoCmd]
    /\ idx = [p \in Procs |-> 1]
    /\ cur = [p \in Procs |-> "notify.rpkg"]
    /\ key = [p \in Procs |-> 1]
    /\ mem = [p \in Procs |-> EmptyDb]
    /\ result = [p \in Procs |-> "none"]
    /\ log = [p \in Procs |-> <<>>]
    /\ pre = [p \in Procs |-> NoPre]
    /\ runs = 0

Init ==
    /\ VersionIdle
    /\ hostFile \in HostVersionFiles
    /\ fs = EmptyFs /\ db = EmptyDb /\ jars = {} /\ applied = 0
    /\ ProcsIdle
    /\ ArchIdle

InstallStep(p, maxBatch) ==
    \/ StartInstall(p, maxBatch)
    \/ Open(p)
    \/ Check(p)
    \/ ExtractScripts(p)
    \/ Preinst(p)
    \/ ExtractContent(p)
    \/ DbRead(p)
    \/ DbWrite(p)
    \/ Postinst(p)
    \/ EnableJars(p)
    \/ ApplyChanges(p)

UninstallStep(p, maxBatch) ==
    \/ StartUninstall(p, maxBatch)
    \/ Load(p)
    \/ UninstallOne(p)

Next == InstallStep(1, MaxBatch) \/ UninstallStep(1, MaxBatch) \/ Exit(1)

Spec == Init /\ [][Next]_vars

(***************************************************************************)
(* Claims about install and uninstall.                                     *)
(***************************************************************************)
\* Errors of Rpkg::install after its two tests.
StepErrors ==
    {"err:scripts", "err:unpack", "err:preinst", "err:dbread", "err:files", "err:dbwrite",
     "err:postinst", "err:jar"}

Installing(p) == cmd[p].kind = "install"

\* cur[p] went through Rpkg::install and install returned Ok.
Installed(p) ==
    /\ Installing(p)
    /\ \/ pc[p] = "apply"
       \/ pc[p] = "open" /\ idx[p] > 1
       \/ pc[p] = "done" /\ result[p] \in {"ok", "err:apply"}

\* The install of cur[p] got past the two tests of lines 193-209.
PastChecks(p) ==
    /\ Installing(p)
    /\ \/ pc[p] \in {"scripts", "preinst", "content", "dbwrite", "postinst", "jars"}
       \/ pc[p] = "done" /\ result[p] \in StepErrors
       \/ Installed(p)

\* The install of cur[p] got past line 211, the scripts extraction.
PastScripts(p) ==
    /\ Installing(p)
    /\ \/ pc[p] \in {"preinst", "content", "dbwrite", "postinst", "jars"}
       \/ pc[p] = "done" /\ result[p] \in StepErrors \ {"err:scripts"}
       \/ Installed(p)

HostVersion == RudderVersionFromPath(hostFile)

Compatible(p) ==
    /\ HostVersion.kind = "ok"
    /\ Rpkg(p).metadata.rudder_version.major = HostVersion.major
    /\ Rpkg(p).metadata.rudder_version.minor = HostVersion.minor

NothingDone(p) ==
    /\ fs = pre[p].fs /\ db = pre[p].db /\ jars = pre[p].jars
    /\ log[p] = <<>>

\* C1: install with force=false of a plugin built for another major.minor
\* than the host's never gets past the compatibility test, and the install
\* that ends with the incompatibility error extracted nothing, ran no script
\* and left the database as it was.
C1_IncompatibleNoEffect ==
    \A p \in Procs :
        /\ PastChecks(p) => cmd[p].force \/ Compatible(p)
        /\ pc[p] = "done" /\ result[p] = "err:incompatible" =>
              ~cmd[p].force /\ ~Compatible(p) /\ NothingDone(p)

\* C1 witness: the second package of a batch was refused as incompatible,
\* with the first one's record in the database.
C1_Witness ==
    /\ pc[1] = "done" /\ result[1] = "err:incompatible"
    /\ cmd[1].args = <<"notify.rpkg", "notify-2.rpkg">> /\ idx[1] = 2
    /\ "notify" \in DOMAIN db

DependsMissing(p, database) ==
    /\ Rpkg(p).metadata.depends # None
    /\ \E d \in Rpkg(p).metadata.depends[1] : d \notin DOMAIN database

\* C2: install with force=false of a compatible plugin with a dependency
\* that is not installed never gets past the dependency test and ends with
\* the missing-dependency error, nothing extracted, no script run, the
\* database as it was; with force=true neither test ends the install, which
\* goes on to the extraction once the host version was read.
C2_MissingDependency ==
    \A p \in Procs :
        /\ PastChecks(p) => cmd[p].force \/ ~DependsMissing(p, pre[p].db)
        /\ pc[p] = "done" /\ result[p] = "err:dependencies" =>
              /\ ~cmd[p].force /\ Compatible(p)
              /\ DependsMissing(p, pre[p].db)
              /\ NothingDone(p)
        /\ cmd[p].force =>
              result[p] \notin {"err:incompatible", "err:dependencies"}
        /\ result[p] = "err:version" => HostVersion.kind # "ok"

\* C2 witness: hooks, which depends on notify, was refused.
C2_Witness ==
    /\ pc[1] = "done" /\ result[1] = "err:dependencies"
    /\ cur[1] = "hooks.rpkg" /\ "notify" \notin DOMAIN db

\* C3: once install is past line 211, every entry of the rpkg's scripts
\* bundle (scripts.txz, the name get_txz_dst maps to the package-scripts
\* root and get_archive_installed_files leaves out) exists under
\* PACKAGES_FOLDER.
C3_ScriptsExtracted ==
    \A p \in Procs :
        PastScripts(p) /\ FindEntry(Rpkg(p), SCRIPTS_TXZ) # 0 =>
            LET tar == Rpkg(p).container[FindEntry(Rpkg(p), SCRIPTS_TXZ)].tar
            IN  \A i \in 1..Len(tar) :
                    Exists(fs, Join(get_txz_dst(Rpkg(p), SCRIPTS_TXZ).value,
                                    tar[i].path))

ExpectedRecord(p) ==
    [files |-> get_archive_installed_files(Rpkg(p)).value,
     metadata |-> Rpkg(p).metadata]

\* C4: after an install that returned Ok the database holds, under the
\* plugin's name, the record made of the rpkg's metadata and of its list of
\* absolute installed files and nothing of an earlier record, and every
\* other name has the record it had before.
C4_RecordUpserted ==
    \A p \in Procs :
        Installed(p) =>
            LET name == Rpkg(p).metadata.name IN
            /\ name \in DOMAIN db
            /\ db[name] = ExpectedRecord(p)
            /\ DOMAIN db = DOMAIN pre[p].db \cup {name}
            /\ \A n \in DOMAIN db \ {name} : db[n] = pre[p].db[n]

\* C4 witness: notify-2 was installed over notify, whose record listed other
\* files.
C4_Witness ==
    /\ pc[1] = "done" /\ result[1] = "ok"
    /\ cur[1] = "notify-2.rpkg"
    /\ "notify" \in DOMAIN pre[1].db /\ "hooks" \in DOMAIN pre[1].db
    /\ pre[1].db["notify"].metadata = Rpkgs["notify.rpkg"].metadata
    /\ db["notify"].files = << <<"", "opt", "rudder", "share", "notify.py">>,
                               <<"", "opt", "rudder", "share", "glpi.py">> >>

\* The bundle an "unpack" event names is on disk, entry by entry.
BundleOnDisk(p, txz_name) ==
    LET i == FindEntry(Rpkg(p), txz_name) IN
    IF i = 0 THEN TRUE
    ELSE \A j \in 1..Len(Rpkg(p).container[i].tar) :
            LET e == Rpkg(p).container[i].tar[j]
                at == Normalize(Join(Rpkg(p).metadata.content.dst[txz_name], e.path))
            IN  at \in DOMAIN fs /\ fs[at] = e.data

EffectInPlace(p, e) ==
    CASE e[1] = "unpack" /\ e[2] \in DOMAIN Rpkg(p).metadata.content.dst ->
            BundleOnDisk(p, e[2])
      [] e[1] = "dbwrite" ->
            /\ Rpkg(p).metadata.name \in DOMAIN db
            /\ db[Rpkg(p).metadata.name] = ExpectedRecord(p)
      [] e[1] = "jar" -> \E j \in jars : j[Len(j)] = e[2]
      [] OTHER -> TRUE

\* The steps install completes before each of its errors.
DoneBefore(how) ==
    CASE how = "err:preinst" -> {}
      [] how = "err:dbread" -> {"unpack"}
      [] how = "err:files" -> {"unpack"}
      [] how = "err:dbwrite" -> {"unpack", "dbread"}
      [] how = "err:postinst" -> {"unpack", "dbread", "dbwrite"}
      [] how = "err:jar" -> {"unpack", "dbread", "dbwrite"}
      [] OTHER -> {}

\* C5: an install that fails after the dependency test returns the error of
\* the failing step and undoes nothing: the bundles it extracted are on
\* disk, and if it had written the database the plugin's record is in it.
C5_NoRollback ==
    \A p \in Procs :
        Installing(p) /\ pc[p] = "done" /\ result[p] \in StepErrors =>
            /\ \A i \in 1..Len(log[p]) : EffectInPlace(p, log[p][i])
            /\ \A k \in DoneBefore(result[p]) :
                    \E i \in 1..Len(log[p]) : log[p][i][1] = k
            /\ result[p] \in {"err:dbread", "err:files", "err:dbwrite",
                              "err:postinst", "err:jar"} =>
                    \A n \in 1..Len(Rpkg(p).metadata.content.keys) :
                        BundleOnDisk(p, Rpkg(p).metadata.content.keys[n])

\* C5 witness: postinst of hooks could not be spawned; the files and the
\* record of hooks are there.
C5_Witness ==
    /\ pc[1] = "done" /\ result[1] = "err:postinst"
    /\ cur[1] = "hooks.rpkg"
    /\ "hooks" \in DOMAIN db /\ "hooks" \notin DOMAIN pre[1].db
    /\ Exists(fs, <<"", "opt", "rudder", "share", "hooks.py">>)

Ran(p, script) == \E i \in 1..Len(log[p]) : log[p][i][1] = "run" /\ log[p][i][2] = script

RanAndFailed(p, script) ==
    \E i \in 1..Len(log[p]) :
        log[p][i][1] = "run" /\ log[p][i][2] = script /\ log[p][i][4] = "1"

ScriptError(script) == IF script = "preinst" THEN "err:preinst" ELSE "err:postinst"

ScriptFile(p, script) == Join(Join(PACKAGES_FOLDER, <<Rpkg(p).metadata.name>>), <<script>>)

\* Install is past the step of that script, which did not end it.
PastScript(p, script) ==
    /\ Installing(p)
    /\ IF script = "preinst"
       THEN \/ pc[p] \in {"content", "dbwrite", "postinst", "jars"}
            \/ pc[p] = "done" /\ result[p] \in StepErrors \ {"err:scripts", "err:preinst"}
            \/ Installed(p)
       ELSE \/ pc[p] = "jars"
            \/ pc[p] = "done" /\ result[p] = "err:jar"
            \/ Installed(p)

\* C6: a lifecycle script runs only if its file exists under
\* PACKAGES_FOLDER/<name>; the step of a script that ran never ends the
\* install, whatever its exit status; the step fails only when the file
\* exists and nothing ran (the spawn failed).
C6_LenientScripts ==
    \A p \in Procs : \A script \in {"preinst", "postinst"} :
        Installing(p) =>
            /\ Ran(p, script) => Exists(fs, ScriptFile(p, script))
            /\ pc[p] = "done" /\ result[p] = ScriptError(script) =>
                  Exists(fs, ScriptFile(p, script)) /\ ~Ran(p, script)
            /\ RanAndFailed(p, script) /\ pc[p] # script => PastScript(p, script)

\* C6 witness: postinst of hooks ran and exited non-zero, preinst did not
\* exist, and the install ended Ok.
C6_Witness ==
    /\ pc[1] = "done" /\ result[1] = "ok"
    /\ cur[1] = "hooks.rpkg"
    /\ RanAndFailed(1, "postinst") /\ ~Ran(1, "preinst")

Uninstalling(p) == cmd[p].kind = "uninstall"

Earlier(p, j) == {cmd[p].args[i] : i \in 1..(j - 1)}

\* C7 as stated: every name of a batch uninstall is attempted, so the batch
\* never ends before its last name.
C7_Original ==
    \A p \in Procs :
        Uninstalling(p) /\ pc[p] = "done" /\ result[p] # "err:dbread" =>
            idx[p] = Len(cmd[p].args)

\* C7 amended: a batch uninstall processes its names in order and ends at
\* the first name whose uninstall fails: a name is attempted only after all
\* the names before it were uninstalled, and the names after the failing
\* one keep their records and their files.
C7_StopsAtFirstError ==
    \A p \in Procs :
        Uninstalling(p) =>
            /\ pc[p] = "uninstall" => Len(log[p]) = idx[p] - 1
            /\ pc[p] = "done" /\ result[p] \in {"err:notinstalled", "err:uninstall"} =>
                  /\ Len(log[p]) = idx[p] - 1
                  /\ \A j \in (idx[p] + 1)..Len(cmd[p].args) :
                        LET n == cmd[p].args[j] IN
                        n \in DOMAIN pre[p].db /\ n \notin Earlier(p, idx[p] + 1) =>
                            /\ n \in DOMAIN db /\ db[n] = pre[p].db[n]
                            /\ \A i \in 1..Len(db[n].files) :
                                  Exists(pre[p].fs, db[n].files[i]) =>
                                      Exists(fs, db[n].files[i])

\* C7 witness: hooks is not installed and notify, named after it, is; the
\* batch ended at hooks and notify is still installed.
C7_Witness ==
    /\ pc[1] = "done" /\ result[1] = "err:notinstalled"
    /\ cmd[1].args = <<"hooks", "notify">> /\ idx[1] = 1
    /\ "notify" \in DOMAIN db
    /\ Exists(fs, <<"", "opt", "rudder", "share", "notify.py">>)

(***************************************************************************)
(* SpecConc: two install commands, one per process, run at the same time,  *)
(* as two shells can run them; nothing locks the database file             *)
(* (archive.rs 223-231).                                                   *)
(***************************************************************************)
NextConc == \E p \in Procs : InstallStep(p, ConcBatch)

SpecConc == Init /\ [][NextConc]_vars

\* The process wrote the database for cur[p] and has not exited.
Wrote(p) ==
    /\ Installing(p)
    /\ \E i \in 1..Len(log[p]) : log[p][i][1] = "dbwrite"

\* C8: nothing merges the writes of two concurrent installs: once both
\* have written, the database file is exactly the value one of them held in
\* memory, so the record of a writer that the other had not read is lost.
C8_LaterWriterWins ==
    \A p, q \in Procs :
        p # q /\ Wrote(p) /\ Wrote(q) => db = mem[p] \/ db = mem[q]

\* C8 witness: the installs of notify and of hooks both returned Ok after
\* both read the empty database; the database holds the record of hooks
\* only, and the files of notify are on disk.
C8_Witness ==
    /\ pc[1] = "done" /\ result[1] = "ok" /\ cur[1] = "notify.rpkg"
    /\ pc[2] = "done" /\ result[2] = "ok" /\ cur[2] = "hooks.rpkg"
    /\ pre[1].db = EmptyDb /\ pre[2].db = EmptyDb
    /\ DOMAIN db = {"hooks"}
    /\ Exists(fs, <<"", "opt", "rudder", "share", "notify.py">>)

(***************************************************************************)
(* SpecParse: RudderVersion::from_str applied to every generated string.   *)
(***************************************************************************)

InitParse ==
    /\ gen \in Gens
    /\ raw = Render(gen)
    /\ parsed = NotParsed
    /\ va = NoPluginVersion /\ vb = NoPluginVersion /\ vc = NoPluginVersion
    /\ ord = NotCompared
    /\ HostIdle /\ ProcsIdle /\ ArchIdle

FromStr ==
    /\ parsed = NotParsed
    /\ parsed' = RudderVersionFromStr(raw)
    /\ UNCHANGED <<gen, raw, va, vb, vc, ord, hostVars, procVars, archVars>>

NextParse == FromStr

SpecParse == InitParse /\ [][NextParse]_vars

(***************************************************************************)
(* SpecCmp: partial_cmp applied to every triple of PluginVersions.         *)
(***************************************************************************)

InitCmp ==
    /\ va \in PluginVersions /\ vb \in PluginVersions /\ vc \in PluginVersions
    /\ ord = NotCompared
    /\ gen = NoGen /\ raw = Render(NoGen) /\ parsed = NotParsed
    /\ HostIdle /\ ProcsIdle /\ ArchIdle

Compare ==
    /\ ord = NotCompared
    /\ ord' = [ab |-> partial_cmp(va, vb), ba |-> partial_cmp(vb, va),
               bc |-> partial_cmp(vb, vc), ac |-> partial_cmp(va, vc)]
    /\ UNCHANGED <<gen, raw, parsed, va, vb, vc, hostVars, procVars, archVars>>

NextCmp == Compare

SpecCmp == InitCmp /\ [][NextCmp]_vars

(***************************************************************************)
(* Claims about the version model.                                         *)
(***************************************************************************)
Compared == ord # NotCompared

LeqOrd(o) == o \in {"Less", "Equal"}

\* C9: partial_cmp is a total order on (major, minor, nightly): major decides
\* first, then minor, whatever the nightly flags; at equal major and minor the
\* nightly version is strictly less than the release; Equal is returned only
\* for identical versions; the relation is antisymmetric and transitive.
C9_TotalOrder ==
    Compared =>
        /\ ord.ab \in {"Less", "Equal", "Greater"}
        /\ va.major # vb.major =>
              ord.ab = (IF va.major < vb.major THEN "Less" ELSE "Greater")
        /\ va.major = vb.major /\ va.minor # vb.minor =>
              ord.ab = (IF va.minor < vb.minor THEN "Less" ELSE "Greater")
        /\ va.major = vb.major /\ va.minor = vb.minor
              /\ va.nightly /\ ~vb.nightly => ord.ab = "Less"
        /\ ord.ab = "Equal" <=> va = vb
        /\ ord.ab = "Less" <=> ord.ba = "Greater"
        /\ LeqOrd(ord.ab) /\ LeqOrd(ord.ba) => va = vb
        /\ LeqOrd(ord.ab) /\ LeqOrd(ord.bc) => LeqOrd(ord.ac)
        /\ ord.ab = "Less" /\ LeqOrd(ord.bc) => ord.ac = "Less"
        /\ LeqOrd(ord.ab) /\ ord.bc = "Less" => ord.ac = "Less"

\* C9 witness: a nightly and a release of the same major.minor were compared,
\* and a third version lies strictly above both.
C9_Witness ==
    /\ Compared
    /\ va.major = vb.major /\ va.minor = vb.minor /\ va.nightly /\ ~vb.nightly
    /\ ord.ab = "Less" /\ ord.bc = "Less" /\ ord.ac = "Less"

Parsed == parsed # NotParsed

StageTokens == {TILDE_ALPHA, TILDE_BETA, TILDE_RC, TILDE_GIT}

NumbersFit(g) == g.major # Overflow /\ g.minor # Overflow /\ g.patch # Overflow

\* Every number written in the string is at most u32::MAX.
NoOverflow(g) ==
    NumbersFit(g) /\ \A i \in 1..Len(g.toks) : g.toks[i] # OverflowDigits

\* major.minor.patch and nothing else before the suffix.
IsTriple(g) == g.comps = 3

\* The suffix is exactly ~alpha<digits>, ~beta<digits>, ~rc<digits> or
\* ~git<digits>.
ExactStageSuffix(toks) ==
    /\ Len(toks) >= 2
    /\ toks[1] \in StageTokens
    /\ \A i \in 2..Len(toks) : toks[i] \in DigitTokens

\* The suffix begins with one of those four forms.
StagePrefixSuffix(toks) ==
    Len(toks) >= 2 /\ toks[1] \in StageTokens /\ toks[2] \in DigitTokens

\* The digits that follow the stage name.
RECURSIVE DigitTokenRun(_)
DigitTokenRun(toks) ==
    IF toks = <<>> \/ Head(toks) \notin DigitTokens THEN <<>>
    ELSE Head(toks) \o DigitTokenRun(Tail(toks))

OrdinalFits(toks) ==
    toks[1] = TILDE_GIT \/ FitsU32(DigitTokenRun(Tail(toks)))

RoundTrips(g, v) ==
    v.major = g.major /\ v.minor = g.minor /\ v.patch = g.patch

TxzNames == {"files.txz", SCRIPTS_TXZ, INSTALL_SCRIPTS_TXZ, "hooks.txz"}

Destinations == {OPT_RUDDER, PACKAGES_FOLDER}

\* File trees an extraction starts from: nothing; an earlier version of the
\* files and a file of someone else; files where directories are expected.
StartTrees ==
    { EmptyFs,
      UnpackEntries(
          UnpackEntries(EmptyFs, OPT_RUDDER,
                        <<File(<<"share", "notify.py">>, "notify 0"),
                          File(<<"share", "keep.txt">>, "keep")>>),
          PACKAGES_FOLDER,
          <<File(<<"notify", "postinst">>, "notify postinst 0"),
            File(<<"keep", "postinst">>, "keep")>>),
      UnpackEntries(EmptyFs, <<"", "opt">>,
                    <<File(<<"rudder", "share">>, "not a directory")>>) }

InitArchive ==
    /\ arch \in [path : ArchivePaths, txz : TxzNames, dst : Destinations]
    /\ out = NoOut
    /\ trees \in {<<tree>> : tree \in StartTrees}
    /\ VersionIdle /\ HostIdle /\ ProcsIdle

\* The Rpkg value the methods are called on.
Opened == out.opened.kind = "ok"

Self == out.opened.value

\* read_metadata(path), as test_read_rpkg_metadata calls it.
ReadMetadata ==
    /\ out.metadata.kind = "none"
    /\ out' = [out EXCEPT !.metadata = read_metadata(arch.path)]
    /\ UNCHANGED <<arch, trees, versionVars, hostVars, procVars>>

\* Rpkg::from_path(path).
FromPath ==
    /\ out.opened.kind = "none"
    /\ out' = [out EXCEPT !.opened = from_path(arch.path)]
    /\ UNCHANGED <<arch, trees, versionVars, hostVars, procVars>>

\* r.get_relative_file_list_of_txz(txz_name).
ListRelative ==
    /\ Opened /\ out.relative.kind = "none"
    /\ out' = [out EXCEPT !.relative = get_relative_file_list_of_txz(Self, arch.txz)]
    /\ UNCHANGED <<arch, trees, versionVars, hostVars, procVars>>

\* r.get_absolute_file_list_of_txz(txz_name).
ListAbsolute ==
    /\ Opened /\ out.absolute.kind = "none"
    /\ out' = [out EXCEPT !.absolute = get_absolute_file_list_of_txz(Self, arch.txz)]
    /\ UNCHANGED <<arch, trees, versionVars, hostVars, procVars>>

\* r.get_archive_installed_files().
ListInstalled ==
    /\ Opened /\ out.installed.kind = "none"
    /\ out' = [out EXCEPT !.installed = get_archive_installed_files(Self)]
    /\ UNCHANGED <<arch, trees, versionVars, hostVars, procVars>>

\* r.unpack_embedded_txz(txz_name, dst_path), on the tree the call before
\* left.
Extract ==
    /\ Opened /\ Len(out.extract) < MaxExtracts
    /\ LET u == Unpacked(trees[Len(trees)], Self, arch.txz, arch.dst)
       IN  /\ out' = [out EXCEPT !.extract = Append(@, u.kind)]
           /\ trees' = Append(trees, u.value)
    /\ UNCHANGED <<arch, versionVars, hostVars, procVars>>

NextArchive ==
    \/ ReadMetadata
    \/ FromPath
    \/ ListRelative
    \/ ListAbsolute
    \/ ListInstalled
    \/ Extract

SpecArchive == InitArchive /\ [][NextArchive]_vars

(***************************************************************************)
(* Claims about the archive model.                                         *)
(***************************************************************************)
\* from_path was called on a container read_metadata rejects.
OpenedUnreadable == out.opened.kind # "none" /\ read_metadata(arch.path).kind = "err"

\* C11: Rpkg::from_path of a container without a metadata entry, and of one
\* whose metadata entry is not JSON of the metadata schema, returns an error
\* value (it neither succeeds nor aborts the process), and the error tells
\* which of the two it is.
C11_OpenReturnsError ==
    OpenedUnreadable =>
        /\ out.opened.kind = "err"
        /\ out.opened.value = read_metadata(arch.path).value
        /\ FindEntry(Archives[arch.path], "metadata") = 0
              <=> out.opened.value = NO_METADATA_FOUND

\* The installed files a container stands for: entry by entry in container
\* order, the scripts bundle left out, each relative file of the nested
\* archive joined to the destination metadata.content gives its name.
RECURSIVE ExpectedInstalled(_, _)
ExpectedInstalled(r, es) ==
    IF es = <<>> THEN <<>>
    ELSE LET e == Head(es)
             relative == ReadableEntries(e.tar)
         IN  (IF e.kind = "txz" /\ e.name # SCRIPTS_TXZ
              THEN [i \in 1..Len(relative) |->
                        Join(r.metadata.content.dst[e.name], relative[i].path)]
              ELSE <<>>)
             \o ExpectedInstalled(r, Tail(es))

\* Where the entries of the scripts bundle go.
ScriptsPaths(r) ==
    LET i == FindEntry(r, SCRIPTS_TXZ) IN
    IF i = 0 THEN {}
    ELSE {Join(PACKAGES_FOLDER, r.container[i].tar[j].path) :
            j \in 1..Len(r.container[i].tar)}

\* C12: get_archive_installed_files returns, for the nested archives in
\* container order without the scripts bundle, the relative files of each in
\* tar order joined to metadata.content[name]; no path of the scripts bundle
\* is in it; and the absolute list of one nested archive is its relative
\* list, same length and order, each file joined to the destination.
C12_InstalledFiles ==
    /\ out.installed.kind = "ok" =>
          /\ out.installed.value = ExpectedInstalled(Self, Self.container)
          /\ \A i \in 1..Len(out.installed.value) :
                out.installed.value[i] \notin ScriptsPaths(Self)
    /\ out.absolute.kind = "ok" /\ out.relative.kind = "ok" =>
          /\ Len(out.absolute.value) = Len(out.relative.value)
          /\ \A i \in 1..Len(out.absolute.value) :
                out.absolute.value[i] =
                    Join(get_txz_dst(Self, arch.txz).value, out.relative.value[i])

\* C12 witness: the installed files of notify.rpkg are the two entries of
\* files.txz under /opt/rudder, and the absolute list of its scripts bundle
\* is one path under PACKAGES_FOLDER.
C12_Witness ==
    /\ arch.path = "notify.rpkg" /\ arch.txz = SCRIPTS_TXZ
    /\ out.installed.kind = "ok"
    /\ out.installed.value = << <<"", "opt", "rudder", "share", "">>,
                                <<"", "opt", "rudder", "share", "notify.py">> >>
    /\ out.relative.kind = "ok" /\ out.absolute.kind = "ok"
    /\ out.absolute.value = << <<"", "var", "rudder", "packages", "notify", "postinst">> >>


\* The tar entries of the nested archive the calls name, and where they go.
Requested ==
    LET i == FindEntry(Self, arch.txz) IN
    IF i = 0 THEN <<>> ELSE Self.container[i].tar

Target(e) == Normalize(Join(arch.dst, e.path))

\* The k-th extraction returned Ok.
Extracted(k) == k <= Len(out.extract) /\ out.extract[k] = "ok"

\* C13: an extraction that succeeds leaves every path of the nested archive
\* with the archive's content, a file that was already there included,
\* and every entry of the tree whose path is not in the archive as it was;
\* a second extraction of the same archive into the same destination
\* succeeds and leaves the tree of the first.
C13_ExtractOverwrites ==
    /\ \A k \in 1..Len(out.extract) :
          Extracted(k) =>
             /\ \A j \in 1..Len(Requested) :
                   /\ Target(Requested[j]) \in DOMAIN trees[k + 1]
                   /\ trees[k + 1][Target(Requested[j])] = Requested[j].data
             /\ \A x \in DOMAIN trees[k] :
                   (\A j \in 1..Len(Requested) : x # Target(Requested[j])) =>
                       /\ x \in DOMAIN trees[k + 1]
                       /\ trees[k + 1][x] = trees[k][x]
    /\ Extracted(1) /\ Len(out.extract) = 2 =>
          /\ Extracted(2)
          /\ trees[3] = trees[2]

\* C13 witness: files.txz of notify.rpkg extracted twice under /opt/rudder
\* over an older notify.py and someone else's keep.txt.
C13_Witness ==
    /\ arch.path = "notify.rpkg" /\ arch.txz = "files.txz" /\ arch.dst = OPT_RUDDER
    /\ Extracted(1) /\ Extracted(2)
    /\ Exists(trees[1], <<"", "opt", "rudder", "share", "notify.py">>)
    /\ trees[1][<<"", "opt", "rudder", "share", "notify.py">>] = "notify 0"
    /\ trees[2][<<"", "opt", "rudder", "share", "notify.py">>] = "notify 1"
    /\ trees[2][<<"", "opt", "rudder", "share", "keep.txt">>] = "keep"
    /\ trees[3] = trees[2]


\* The container has no entry of the requested name.
Absent == Opened /\ FindEntry(Self, arch.txz) = 0

\* C15: when the container has no entry of the requested name,
\* get_relative_file_list_of_txz returns Ok of the empty list, and
\* unpack_embedded_txz returns Ok and leaves the file tree as it found it,
\* no directory made and no file written.
C15_AbsentIsNoError ==
    Absent =>
        /\ out.relative.kind # "none" =>
              /\ out.relative.kind = "ok"
              /\ out.relative.value = <<>>
        /\ \A k \in 1..Len(out.extract) :
              /\ out.extract[k] = "ok"
              /\ trees[k + 1] = trees[k]

\* C15 witness: notify.rpkg asked for "script.txz", which it does not hold,
\* listed and extracted towards /opt/rudder on an empty tree.
C15_Witness ==
    /\ arch.path = "notify.rpkg" /\ arch.txz = INSTALL_SCRIPTS_TXZ
    /\ Absent
    /\ out.relative.kind = "ok" /\ out.relative.value = <<>>
    /\ Len(out.extract) >= 1 /\ out.extract[1] = "ok"
    /\ trees[1] = EmptyFs /\ trees[2] = EmptyFs


\* The requested nested archive does not decompress, or one of its tar
\* headers does not read.
Unreadable ==
    /\ Opened
    /\ FindEntry(Self, arch.txz) # 0
    /\ \/ ~Self.container[FindEntry(Self, arch.txz)].xz
       \/ \E j \in 1..Len(Requested) : ~Requested[j].ok

\* C16: get_relative_file_list_of_txz returns an error whenever the named
\* nested archive cannot be decompressed or its tar stream is malformed at
\* some entry; it never returns Ok with a list that leaves entries out.
C16_ListFailsOnUnreadable ==
    Unreadable /\ out.relative.kind # "none" => out.relative.kind = "err"


(***************************************************************************)
(* Claims about the order of install's effects, its script argument and    *)
(* the batch.                                                              *)
(***************************************************************************)
ContentKeys(p) == Rpkg(p).metadata.content.keys

JarNames(p) ==
    IF Rpkg(p).metadata.jar_files = None THEN <<>>
    ELSE [i \in 1..Len(Rpkg(p).metadata.jar_files[1]) |->
            Rpkg(p).metadata.jar_files[1][i][Len(Rpkg(p).metadata.jar_files[1][i])]]

\* The position of b in sequence s, 0 when it is not there.
IndexIn(s, b) ==
    IF \E k \in 1..Len(s) : s[k] = b THEN CHOOSE k \in 1..Len(s) : s[k] = b
    ELSE 0

\* The place of an effect in the order of section 4.4, for the package
\* being installed; 0 for an effect that has no place in it.
Rank(p, e) ==
    LET n == Len(ContentKeys(p)) IN
    CASE e[1] = "unpack" /\ e[2] = INSTALL_SCRIPTS_TXZ -> 1
      [] e[1] = "run" /\ e[2] = "preinst" -> 2
      [] e[1] = "unpack" /\ e[2] # INSTALL_SCRIPTS_TXZ ->
            IF IndexIn(ContentKeys(p), e[2]) = 0 THEN 0
            ELSE 2 + IndexIn(ContentKeys(p), e[2])
      [] e[1] = "dbread" -> n + 3
      [] e[1] = "dbwrite" -> n + 4
      [] e[1] = "run" /\ e[2] = "postinst" -> n + 5
      [] e[1] = "jar" ->
            IF IndexIn(JarNames(p), e[2]) = 0 THEN 0
            ELSE n + 5 + IndexIn(JarNames(p), e[2])
      [] OTHER -> 0

\* The places no successful install leaves out: all but the two scripts,
\* which run only when their file exists.
RequiredRanks(p) ==
    LET n == Len(ContentKeys(p)) IN
    {1} \cup 3..(n + 4) \cup (n + 6)..(n + 5 + Len(JarNames(p)))

C17_AlwaysInstallArg ==
    \A p \in Procs :
        Installing(p) =>
            \A i \in 1..Len(log[p]) :
                log[p][i][1] = "run" =>
                    /\ log[p][i][2] \in {"preinst", "postinst"}
                    /\ log[p][i][3] = "install"

\* C17 witness: hooks installed while the database already records hooks;
\* its preinst and its postinst both ran with "install".
C17_Witness ==
    /\ Installing(1) /\ cur[1] = "hooks.rpkg"
    /\ "hooks" \in DOMAIN pre[1].db
    /\ \E i \in 1..Len(log[1]) :
          log[1][i][1] = "run" /\ log[1][i][2] = "preinst" /\ log[1][i][3] = "install"
    /\ \E i \in 1..Len(log[1]) :
          log[1][i][1] = "run" /\ log[1][i][2] = "postinst" /\ log[1][i][3] = "install"


\* The plugin an argument of install names: a file's own, or the name
\* looked up in the repository.
PluginName(arg) == IF arg \in RpkgPaths THEN Rpkgs[arg].metadata.name ELSE arg

\* The batch ended before apply_changes, at the package at idx.
BatchFailed(p) ==
    Installing(p) /\ pc[p] = "done" /\ result[p] \notin {"ok", "err:apply"}

\* The batch ended after every package: apply_changes was called.
BatchApplied(p) ==
    Installing(p) /\ pc[p] = "done" /\ result[p] \in {"ok", "err:apply"}

\* The paths the files of a package are written at.
Targets(r) ==
    {Normalize(get_archive_installed_files(r).value[i]) :
        i \in 1..Len(get_archive_installed_files(r).value)}

\* What a batch that failed leaves: the packages before the failing one
\* have their record and their files; of what was there when the failing
\* package was opened, only its own record and its own files may differ.
BatchState ==
    \A p \in Procs :
        /\ BatchFailed(p) =>
              /\ \A j \in 1..(idx[p] - 1) :
                    /\ PluginName(cmd[p].args[j]) \in DOMAIN db
                    /\ \A i \in 1..Len(db[PluginName(cmd[p].args[j])].files) :
                          Exists(fs, db[PluginName(cmd[p].args[j])].files[i])
              /\ \A n \in DOMAIN pre[p].db :
                    /\ n \in DOMAIN db
                    /\ n # PluginName(cmd[p].args[idx[p]]) => db[n] = pre[p].db[n]
              /\ \A x \in DOMAIN pre[p].fs :
                    /\ x \in DOMAIN fs
                    /\ fs[x] # pre[p].fs[x] =>
                          PastChecks(p) /\ x \in Targets(Rpkg(p))
              /\ pre[p].jars \subseteq jars
        /\ BatchApplied(p) =>
              /\ idx[p] = Len(cmd[p].args)
              /\ \A j \in 1..Len(cmd[p].args) :
                    PluginName(cmd[p].args[j]) \in DOMAIN db

\* One step of a batch: the index moves by one, and only past a package
\* that installed; the package opened is the one the argument at the index
\* names; apply_changes is called in the step that ends a batch whose last
\* package installed, once, and in no other step.
BatchStep ==
    \A p \in Procs :
        /\ Installing(p) /\ pc[p] \notin {"idle", "done"} /\ idx'[p] # idx[p] =>
              /\ idx'[p] = idx[p] + 1
              /\ idx[p] < Len(cmd[p].args)
              /\ pc[p] = "jars" /\ pc'[p] = "open"
        /\ pc[p] = "open" /\ pc'[p] = "check" =>
              /\ Rpkgs[cur'[p]].metadata.name = PluginName(cmd[p].args[idx[p]])
              /\ cmd[p].args[idx[p]] \in RpkgPaths => cur'[p] = cmd[p].args[idx[p]]
        /\ Installing(p) /\ pc[p] # "done" /\ pc'[p] = "done" =>
              IF pc[p] = "apply" /\ idx[p] = Len(cmd[p].args)
              THEN /\ applied' = applied + 1
                   /\ result'[p] \in {"ok", "err:apply"}
              ELSE /\ applied' = applied
                   /\ result'[p] \notin {"ok", "err:apply"}
        /\ applied' # applied /\ pc'[p] # pc[p] =>
              Installing(p) /\ pc[p] = "apply" /\ pc'[p] = "done"

\* C18: a batch install takes its packages in argument order; the first
\* package that fails ends it: no later package is opened, the packages
\* installed before keep their files and their records, and apply_changes
\* is not called; apply_changes is called exactly once, after the last
\* package installed.
C18_BatchStopsAtFirstFailure == []BatchState /\ [][BatchStep]_vars

\* C18 witness: install notify.rpkg hooks.rpkg, where notify installed and
\* hooks failed on the way: notify's record and file are there and
\* apply_changes was not called.
C18_Witness ==
    /\ runs = 1 /\ applied = 0
    /\ cmd[1].kind = "install" /\ cmd[1].args = <<"notify.rpkg", "hooks.rpkg">>
    /\ BatchFailed(1) /\ idx[1] = 2 /\ PastChecks(1)
    /\ "notify" \in DOMAIN db /\ "hooks" \notin DOMAIN db
    /\ Exists(fs, <<"", "opt", "rudder", "share", "notify.py">>)
    /\ fs # pre[1].fs

=============================================================================
